---- MODULE Spec2Model ----
(***************************************************************************)
(* Model of the weather WebSocket Lambda: the route handler of index.js    *)
(* and the connection registry / delivery functions of websocket.js.       *)
(*                                                                         *)
(* One action is one handler invocation, run to completion.  The DynamoDB  *)
(* table, the API Gateway transport and the relational store are external: *)
(* their answers (a failing request, a 410, the saved locations) are       *)
(* inputs of the invocation.  The key schema of the connections table is   *)
(* not fixed anywhere in the repository and the functions of websocket.js  *)
(* disagree about it (Key {connectionId} in updateConnectionLocations and  *)
(* cleanupUserConnections, Key {connectionId, userId} in removeConnection  *)
(* and updateConnectionTTL), so it is chosen in Init and DynamoDB's key    *)
(* validation is modelled for both.                                        *)
(***************************************************************************)
EXTENDS Integers, Sequences, FiniteSets, TLC

VARIABLES registry, now, keySchema, jwtSecretSet, last, weatherCache

vars == <<registry, now, keySchema, jwtSecretSet, last, weatherCache>>

----
\* Bounds of the model

MaxTicks == 1
T0 == 1000
TickSeconds == 86400
MaxFaultIndex == 1
MaxWeatherTicks == 3
WeatherTickSeconds == 150
MaxLocations == 2
MaxAttempts == 4

\* Program constant (config.js)
CONNECTION_TTL_HOURS == 24

----
\* Value universes

Conns == {"c1", "c2"}
Users == {"42", "99"}
Locs == {"loc-7", "loc-8"}

\* JavaScript undefined / absent attribute
NoUser == "undefined"
NoNum == -1
NoLoc == "undefined"

UsernameOf(u) == IF u = "42" THEN "alice" ELSE IF u = "99" THEN "bob" ELSE NoUser

FarExp == T0 + (MaxTicks + 1) * TickSeconds

Jwt(sig, exp, uid, uname) ==
    [kind |-> "jwt", sig |-> sig, exp |-> exp, userId |-> uid, username |-> uname]

NoToken == [kind |-> "none", sig |-> "none", exp |-> 0, userId |-> NoUser, username |-> NoUser]

\* tokens carried by messages: none, a valid token of each user, and one of
\* user 42 that expired at T0
MessageTokens ==
    {NoToken}
    \cup {Jwt("good", FarExp, u, UsernameOf(u)) : u \in Users}
    \cup {Jwt("good", T0, "42", "alice")}

\* tokens of $connect: also one with a manipulated signature and one without
\* the username claim
Tokens ==
    MessageTokens
    \cup {Jwt("bad", FarExp, "42", "alice"),
          Jwt("good", FarExp, "42", NoUser)}

\* userId query parameter of $connect (NoUser: parameter absent)
ProvidedIds == {NoUser, "42", "99", "alice"}

\* value of the locationIds attribute: a list, a bare string, null, or absent
LocList(s) == [kind |-> "list", items |-> s]
LocString(l) == [kind |-> "string", items |-> <<l>>]
LocNull == [kind |-> "null", items |-> <<>>]
LocAbsent == [kind |-> "absent", items |-> <<>>]

\* answers of the relational store to getLocationsForUser
DbAnswers ==
    {[ok |-> FALSE, rows |-> <<>>]}
    \cup {[ok |-> TRUE, rows |-> s] : s \in {<<>>, <<"loc-7", "loc-8">>}}

NoDb == {[ok |-> TRUE, rows |-> <<>>]}

\* what the transport answers to the pushes of one invocation: delivered,
\* 410 Gone, or another failure
Outcomes == {"ok", "gone", "error"}

\* Items[0] of a scan by connectionId: under the composite key the table can hold
\* an item of each user for one connectionId, and either can come first
Firsts(reg, connectionId, userId) ==
    IF /\ keySchema = "connectionId+userId"
       /\ \E i \in reg : i.connectionId = connectionId /\ i.userId # userId
    THEN Users ELSE {NoUser}

\* answers of the environment during one invocation: the store request that
\* fails (if any), the outcome of the pushes, the order of a scan
Envs(connectionId, userId) ==
    [faults : {{}} \cup {{k} : k \in 1..MaxFaultIndex},
     transport : Outcomes,
     first : Firsts(registry, connectionId, userId)]

QuietEnvs ==
    [faults : {{}}, transport : {"ok"}, first : {NoUser}]

----
\* Time

DateNow == now * 1000

calculateTTL == (DateNow \div 1000) + (CONNECTION_TTL_HOURS * 60 * 60)

----
\* Execution context threaded through one invocation

Ctx0(reg) ==
    [reg |-> reg, n |-> 0, p |-> 0, calls |-> <<>>, pushes |-> <<>>, err |-> ""]

Log(ctx, name) == [ctx EXCEPT !.calls = Append(@, name)]

Throw(ctx, e) == [ctx EXCEPT !.err = e]

Caught(ctx) == [ctx EXCEPT !.err = ""]

----
\* DynamoDB

KeyOf(c, u) == [connectionId |-> c, userId |-> u]

KeyMatchesSchema(key) ==
    IF keySchema = "connectionId" THEN key.userId = NoUser ELSE key.userId # NoUser

ItemsAt(reg, key) ==
    {i \in reg : /\ i.connectionId = key.connectionId
                 /\ (keySchema = "connectionId+userId" => i.userId = key.userId)}

PutCommand(ctx, env, item) ==
    LET k == ctx.n + 1
        c1 == Log([ctx EXCEPT !.n = k], "Put")
    IN  IF k \in env.faults THEN Throw(c1, "ServiceError")
        ELSE IF ItemsAt(ctx.reg, KeyOf(item.connectionId, item.userId)) # {}
             THEN Throw(c1, "ConditionalCheckFailedException")
             ELSE [c1 EXCEPT !.reg = @ \cup {item}]

ScanCommand(ctx, env) ==
    LET k == ctx.n + 1
        c1 == Log([ctx EXCEPT !.n = k], "Scan")
    IN  IF k \in env.faults THEN Throw(c1, "ServiceError") ELSE c1

DeleteCommand(ctx, env, key) ==
    LET k == ctx.n + 1
        c1 == Log([ctx EXCEPT !.n = k], "Delete")
    IN  IF k \in env.faults THEN Throw(c1, "ServiceError")
        ELSE IF ~KeyMatchesSchema(key) THEN Throw(c1, "ValidationException")
        ELSE [c1 EXCEPT !.reg = @ \ ItemsAt(ctx.reg, key)]

\* SET of ttl and status, and of locationIds unless set.locationIds is LocAbsent;
\* UpdateItem creates the item when the key is not in the table
UpdateCommand(ctx, env, key, set) ==
    LET k == ctx.n + 1
        c1 == Log([ctx EXCEPT !.n = k], "Update")
        old == ItemsAt(ctx.reg, key)
        base == IF old # {} THEN CHOOSE i \in old : TRUE
                ELSE [connectionId |-> key.connectionId, userId |-> key.userId,
                      timestamp |-> NoNum, ttl |-> NoNum,
                      locationIds |-> LocAbsent, status |-> "undefined"]
        new == [base EXCEPT !.ttl = set.ttl, !.status = set.status,
                            !.locationIds = IF set.locationIds = LocAbsent THEN @
                                            ELSE set.locationIds]
    IN  IF k \in env.faults THEN Throw(c1, "ServiceError")
        ELSE IF ~KeyMatchesSchema(key) THEN Throw(c1, "ValidationException")
        ELSE [c1 EXCEPT !.reg = (@ \ old) \cup {new}]

----
\* websocket.js

\* a storeConnection that throws when the connectionId is already stored
storeConnectionStrict(ctx, env, connectionId, userId) ==
    LET item == [connectionId |-> connectionId, userId |-> userId,
                 timestamp |-> DateNow, ttl |-> calculateTTL,
                 locationIds |-> LocList(<<>>), status |-> "CONNECTED"]
    IN  PutCommand(Log(ctx, "storeConnection"), env, item)

storeConnection(ctx, env, connectionId, userId) ==
    LET item == [connectionId |-> connectionId, userId |-> userId,
                 timestamp |-> DateNow, ttl |-> calculateTTL,
                 locationIds |-> LocList(<<>>), status |-> "CONNECTED"]
        r == PutCommand(Log(ctx, "storeConnection"), env, item)
    IN  IF r.err = "ConditionalCheckFailedException" THEN Caught(r) ELSE r

\* Items[0] of a scan: the item of env.first when the scan returned it
FirstItem(Items, first) ==
    IF \E i \in Items : i.userId = first
    THEN CHOOSE i \in Items : i.userId = first
    ELSE CHOOSE i \in Items : TRUE

removeConnection(ctx, env, connectionId) ==
    LET s == ScanCommand(Log(ctx, "removeConnection"), env)
        Items == {i \in s.reg : i.connectionId = connectionId}
    IN  IF s.err # "" THEN s
        ELSE IF Items = {} THEN s
        ELSE DeleteCommand(s, env, KeyOf(connectionId, FirstItem(Items, env.first).userId))

\* payload: [type, locations]
sendMessageToClient(ctx, env, connectionId, payload) ==
    LET k == ctx.p + 1
        outcome == env.transport
        push == [connectionId |-> connectionId, type |-> payload.type,
                 locations |-> payload.locations, outcome |-> outcome,
                 at |-> Len(ctx.calls) + 1]
        c1 == Log([ctx EXCEPT !.p = k, !.pushes = Append(@, push)], "sendMessageToClient")
        removed == removeConnection(c1, env, connectionId)
    IN  IF outcome = "ok" THEN c1
        ELSE IF outcome = "gone"
        THEN IF removed.err # "" THEN Log(removed, "sendMessageToClient:throw") ELSE removed
        ELSE Throw(Log(c1, "sendMessageToClient:throw"), "TransportError")

updateConnectionTTL(ctx, env, connectionId, userId) ==
    UpdateCommand(Log(ctx, "updateConnectionTTL"), env, KeyOf(connectionId, userId),
                  [ttl |-> calculateTTL, status |-> "CONNECTED", locationIds |-> LocAbsent])

\* an updateConnectionLocations that appends to the subscription it finds
updateConnectionLocationsMerging(ctx, env, connectionId, locationIds) ==
    LET old == ItemsAt(ctx.reg, KeyOf(connectionId, NoUser))
        held == IF old = {} THEN <<>> ELSE (CHOOSE i \in old : TRUE).locationIds.items
    IN  UpdateCommand(Log(ctx, "updateConnectionLocations"), env, KeyOf(connectionId, NoUser),
                      [ttl |-> calculateTTL, status |-> "CONNECTED",
                       locationIds |-> LocList(held \o locationIds.items)])

updateConnectionLocations(ctx, env, connectionId, locationIds) ==
    UpdateCommand(Log(ctx, "updateConnectionLocations"), env, KeyOf(connectionId, NoUser),
                  [ttl |-> calculateTTL, status |-> "CONNECTED", locationIds |-> locationIds])

\* jwt.verify checks the signature, then the expiry
\* a verifyToken that checks neither the signature nor the expiry
verifyTokenUnchecked(token) ==
    IF ~jwtSecretSet THEN [ok |-> FALSE, message |-> "JWT configuration error",
                           userId |-> NoUser, username |-> NoUser]
    ELSE IF token.kind = "none" THEN [ok |-> FALSE, message |-> "No token provided",
                                      userId |-> NoUser, username |-> NoUser]
    ELSE IF token.userId = NoUser \/ token.username = NoUser
         THEN [ok |-> FALSE, message |-> "Token verification failed",
               userId |-> NoUser, username |-> NoUser]
    ELSE [ok |-> TRUE, message |-> "", userId |-> token.userId, username |-> token.username]

verifyToken(token) ==
    IF ~jwtSecretSet THEN [ok |-> FALSE, message |-> "JWT configuration error",
                           userId |-> NoUser, username |-> NoUser]
    ELSE IF token.kind = "none" THEN [ok |-> FALSE, message |-> "No token provided",
                                      userId |-> NoUser, username |-> NoUser]
    ELSE IF token.sig # "good" THEN [ok |-> FALSE, message |-> "Invalid token signature",
                                     userId |-> NoUser, username |-> NoUser]
    ELSE IF now >= token.exp THEN [ok |-> FALSE, message |-> "Token has expired",
                                   userId |-> NoUser, username |-> NoUser]
    ELSE IF token.userId = NoUser \/ token.username = NoUser
         THEN [ok |-> FALSE, message |-> "Token verification failed",
               userId |-> NoUser, username |-> NoUser]
    ELSE [ok |-> TRUE, message |-> "", userId |-> token.userId, username |-> token.username]

ConnOrder(c) == IF c = "c1" THEN 1 ELSE 2

\* a cleanupUserConnections that deletes the first scanned item only
cleanupUserConnectionsFirst(ctx, env, userId) ==
    LET s == ScanCommand(Log(ctx, "cleanupUserConnections"), env)
        Items == {i \in s.reg : i.userId = userId}
        first == CHOOSE i \in Items :
                     \A j \in Items : ConnOrder(i.connectionId) <= ConnOrder(j.connectionId)
        Failed == (s.n + 1) \in env.faults
        Invalid == ~KeyMatchesSchema(KeyOf(first.connectionId, NoUser))
        after == [s EXCEPT !.n = @ + 1, !.calls = Append(@, "Delete"),
                           !.reg = IF Failed \/ Invalid THEN @ ELSE @ \ {first}]
    IN  IF s.err # "" THEN s
        ELSE IF Items = {} THEN s
        ELSE IF Invalid THEN Throw(after, "ValidationException")
        ELSE IF Failed THEN Throw(after, "ServiceError")
        ELSE after

\* the DeleteCommands of Promise.all, one for each scanned item, are all
\* issued; they are numbered in the order of the scanned items
deleteScanned(s, env, Items) ==
    LET Rank(i) == Cardinality({j \in Items :
                                   ConnOrder(j.connectionId) < ConnOrder(i.connectionId)}) + 1
        Failed(i) == (s.n + Rank(i)) \in env.faults
        Invalid(i) == ~KeyMatchesSchema(KeyOf(i.connectionId, NoUser))
        deleted == {i \in Items : ~Failed(i) /\ ~Invalid(i)}
        after == [s EXCEPT !.n = @ + Cardinality(Items),
                           !.calls = @ \o [x \in 1..Cardinality(Items) |-> "Delete"],
                           !.reg = {j \in @ : \A i \in deleted :
                                                j.connectionId # i.connectionId}]
    IN  IF Items = {} THEN s
        ELSE IF \E i \in Items : Invalid(i) THEN Throw(after, "ValidationException")
        ELSE IF \E i \in Items : Failed(i) THEN Throw(after, "ServiceError")
        ELSE after

cleanupUserConnections(ctx, env, userId) ==
    LET s == ScanCommand(Log(ctx, "cleanupUserConnections"), env)
        Items == {i \in s.reg : i.userId = userId}
    IN  IF s.err # "" THEN s
        ELSE deleteScanned(s, env, Items)

\* outcomes[c] is what the transport answers to the push on connection c; the
\* sends of Promise.all are all issued, in the order of the scanned items, and
\* the call throws the first error among them
broadcastToUserConnections(ctx, env, userId, outcomes) ==
    LET s == ScanCommand(Log(ctx, "broadcastToUserConnections"), env)
        Items == {i \in s.reg : i.userId = userId}
        send(c, connectionId) ==
            IF \A i \in Items : i.connectionId # connectionId THEN c
            ELSE LET r == sendMessageToClient(Caught(c),
                                              [env EXCEPT !.transport = outcomes[connectionId]],
                                              connectionId,
                                              [type |-> "weatherUpdate", locations |-> <<>>])
                 IN  IF c.err # "" THEN Throw(r, c.err) ELSE r
    IN  IF s.err # "" THEN s
        ELSE IF Items = {} THEN s
        ELSE send(send(s, "c1"), "c2")

\* the serviceType attribute of an item: storeConnection and the UpdateCommands
\* write none
serviceTypeOf(item) == "undefined"

\* a getActiveConnections whose scan has no filter
getActiveConnectionsUnfiltered(ctx, env) ==
    LET s == ScanCommand(Log(ctx, "getActiveConnections"), env)
    IN  [ctx |-> s, items |-> IF s.err # "" THEN {} ELSE s.reg]

\* scan with FilterExpression serviceType = 'weather-updates' AND ttl > now
getActiveConnections(ctx, env) ==
    LET s == ScanCommand(Log(ctx, "getActiveConnections"), env)
        nowSeconds == DateNow \div 1000
    IN  [ctx |-> s,
         items |-> IF s.err # "" THEN {}
                   ELSE {i \in s.reg : /\ serviceTypeOf(i) = "weather-updates"
                                       /\ i.ttl > nowSeconds}]

----
\* dataProcessor.js and database.js

\* a row of queries.getUserLocations: it has location_id and neither
\* temperature, current, locationId nor error
processWeatherData(rows) ==
    [k \in 1..Len(rows) |->
        [id |-> NoLoc, error |-> "Failed to process weather data", location |-> rows[k]]]

\* userLocations.filter(loc => locations.includes(loc.location_id))
RECURSIVE Filter(_, _)
Filter(rows, wanted) ==
    IF rows = <<>> THEN <<>>
    ELSE (IF \E k \in 1..Len(wanted) : wanted[k] = Head(rows) THEN <<Head(rows)>> ELSE <<>>)
         \o Filter(Tail(rows), wanted)

----
\* index.js: the handler

Response(ctx, statusCode, message) ==
    [ctx |-> ctx, statusCode |-> statusCode, message |-> message]

Payload(type, locations) == [type |-> type, locations |-> locations]

\* createUserContext(getTokenFromEvent(event)): verifies the token when there is one
Prelude(ctx, token) ==
    IF token.kind = "none" THEN ctx
    ELSE Log(ctx, IF verifyToken(token).ok THEN "verifyToken:ok" ELSE "verifyToken:throw")

AnonymousContext == [kind |-> "user", key |-> "anonymous", anonymous |-> TRUE]

\* a user context taken from the claims of the token without verifying it
createUserContextTrusting(token) ==
    IF token.kind = "none" THEN AnonymousContext
    ELSE [kind |-> "user",
          key |-> IF token.username # NoUser THEN token.username ELSE token.userId,
          anonymous |-> FALSE]

createUserContext(token) ==
    LET decoded == verifyToken(token)
    IN  IF token.kind = "none" THEN AnonymousContext
        ELSE IF decoded.ok
        THEN [kind |-> "user",
              key |-> IF decoded.username # NoUser THEN decoded.username ELSE decoded.userId,
              anonymous |-> FALSE]
        ELSE AnonymousContext

\* query: the token query parameter; body: the token field of the body, which
\* is JSON or not
getTokenFromEvent(routeKey, query, bodyOk, body) ==
    IF routeKey = "$connect" THEN query
    ELSE IF routeKey \in {"getWeather", "locationUpdate", "$default"}
    THEN IF bodyOk THEN body ELSE NoToken
    ELSE NoToken

Verify(ctx, token) ==
    Log(ctx, IF verifyToken(token).ok THEN "verifyToken:ok" ELSE "verifyToken:throw")

\* a parameter check that asks for the token only
MissingToken(token, providedUserId) ==
    token.kind = "none"

\* !token || !providedUserId
MissingParams(token, providedUserId) ==
    token.kind = "none" \/ providedUserId = NoUser

\* an isValidUser that accepts any userId parameter
isValidUserAny(decoded, providedUserId) ==
    providedUserId # NoUser

isValidUser(decoded, providedUserId) ==
    decoded.userId = providedUserId \/ decoded.username = providedUserId

\* a catch of the outer try whose error push is not guarded: a failure of the
\* push leaves the handler as an exception (statusCode 0: no response)
OuterCatchUnguarded(ctx, env, connectionId) ==
    LET sent == sendMessageToClient(Caught(ctx), env, connectionId, Payload("error", <<>>))
    IN  IF sent.err # "" THEN Response(sent, 0, sent.err)
        ELSE Response(sent, 500, "Internal server error")

\* catch of the outer try: best-effort error push, then 500
OuterCatch(ctx, env, connectionId) ==
    Response(Caught(sendMessageToClient(Caught(ctx), env, connectionId, Payload("error", <<>>))),
             500, "Internal server error")

connectRoute(ctx0, env, db, connectionId, token, providedUserId) ==
    LET ctx == Prelude(ctx0, token)
        decoded == verifyToken(token)
        v == Verify(ctx, token)
        stored == storeConnection(v, env, connectionId, decoded.userId)
        located == Log(stored, "getLocationsForUser")
        sent == IF Len(db.rows) > 0
                THEN sendMessageToClient(located, env, connectionId,
                                         Payload("weatherUpdate", processWeatherData(db.rows)))
                ELSE sendMessageToClient(located, env, connectionId,
                                         Payload("noLocations", <<>>))
    IN  IF MissingParams(token, providedUserId)
        THEN Response(ctx, 401, "Authorization token and userId required")
        ELSE IF ~decoded.ok
        THEN Response(v, 401, IF decoded.message = "Token has expired"
                              THEN "Token has expired. Please log in again."
                              ELSE "Invalid token")
        ELSE IF ~isValidUser(decoded, providedUserId)
        THEN Response(v, 401, "Invalid user identification")
        ELSE IF stored.err # "" THEN Response(Caught(stored), 401, "Invalid token")
        ELSE IF ~db.ok THEN Response(located, 401, "Invalid token")
        ELSE IF sent.err # "" THEN Response(Caught(sent), 401, "Invalid token")
        ELSE Response(sent, 200, "Connected successfully")

disconnectRoute(ctx0, env, connectionId) ==
    LET removed == removeConnection(ctx0, env, connectionId)
    IN  IF removed.err # "" THEN OuterCatch(removed, env, connectionId)
        ELSE Response(removed, 200, "Disconnected successfully")

\* catch of the getWeather route: error push (a failure of it is swallowed), then 500
GetWeatherCatch(ctx, env, connectionId) ==
    Response(Caught(sendMessageToClient(Caught(ctx), env, connectionId, Payload("error", <<>>))),
             500, "Failed to retrieve weather data")

filteredLocationsAll(userLocations, locations) == userLocations

\* the saved locations the getWeather route hands to processWeatherData
filteredLocations(userLocations, locations) ==
    IF Len(locations) > 0 THEN Filter(userLocations, locations) ELSE userLocations

getWeatherRoute(ctx0, env, db, connectionId, bodyOk, token, locations) ==
    LET ctx == IF bodyOk THEN Prelude(ctx0, token) ELSE ctx0
        noTok == sendMessageToClient(ctx, env, connectionId, Payload("error", <<>>))
        decoded == verifyToken(token)
        v == Verify(ctx, token)
        refreshed == updateConnectionTTL(v, env, connectionId, decoded.userId)
        located == Log(refreshed, "getLocationsForUser")
        sent == sendMessageToClient(located, env, connectionId,
                                    Payload("weatherUpdate",
                                            processWeatherData(filteredLocations(db.rows, locations))))
    IN  IF ~bodyOk THEN OuterCatch(ctx, env, connectionId)
        ELSE IF token.kind = "none"
        THEN IF noTok.err # "" THEN GetWeatherCatch(noTok, env, connectionId)
             ELSE Response(noTok, 401, "Authentication token is required")
        ELSE IF ~decoded.ok THEN GetWeatherCatch(v, env, connectionId)
        ELSE IF refreshed.err # "" THEN GetWeatherCatch(refreshed, env, connectionId)
        ELSE IF ~db.ok THEN GetWeatherCatch(located, env, connectionId)
        ELSE IF sent.err # "" THEN GetWeatherCatch(sent, env, connectionId)
        ELSE Response(sent, 200, "Weather data sent successfully")

locationUpdateRoute(ctx0, env, db, connectionId, bodyOk, token) ==
    LET ctx == IF bodyOk THEN Prelude(ctx0, token) ELSE ctx0
        decoded == verifyToken(token)
        v == Verify(ctx, token)
        located == Log(v, "getLocationsForUser")
        sent == sendMessageToClient(located, env, connectionId,
                                    Payload("weatherUpdate", processWeatherData(db.rows)))
    IN  IF ~bodyOk THEN OuterCatch(ctx, env, connectionId)
        ELSE IF ~decoded.ok THEN OuterCatch(v, env, connectionId)
        ELSE IF ~db.ok THEN OuterCatch(located, env, connectionId)
        ELSE IF sent.err # "" THEN OuterCatch(sent, env, connectionId)
        ELSE Response(sent, 200, "Location update sent")

\* locationId: NoLoc when the message has none
defaultRoute(ctx0, env, db, connectionId, bodyOk, token, action, locationId) ==
    LET ctx == IF bodyOk THEN Prelude(ctx0, token) ELSE ctx0
        decoded == verifyToken(token)
        v == Verify(ctx, token)
        subscribed == updateConnectionLocations(v, env, connectionId, LocString(locationId))
        located == Log(subscribed, "getLocationsForUser")
        sent == sendMessageToClient(located, env, connectionId,
                                    Payload("weatherUpdate", processWeatherData(db.rows)))
        unsubscribed == updateConnectionLocations(v, env, connectionId, LocNull)
        cleaned == cleanupUserConnections(v, env, decoded.userId)
    IN  IF ~bodyOk THEN OuterCatch(ctx, env, connectionId)
        ELSE IF ~decoded.ok THEN OuterCatch(v, env, connectionId)
        ELSE IF action = "subscribe"
        THEN IF locationId = NoLoc
             THEN Response(v, 400, "Location ID is required for subscription")
             ELSE IF subscribed.err # "" THEN OuterCatch(subscribed, env, connectionId)
             ELSE IF ~db.ok THEN OuterCatch(located, env, connectionId)
             ELSE IF sent.err # "" THEN OuterCatch(sent, env, connectionId)
             ELSE Response(sent, 200, "Subscribed successfully")
        ELSE IF action = "unsubscribe"
        THEN IF unsubscribed.err # "" THEN OuterCatch(unsubscribed, env, connectionId)
             ELSE Response(unsubscribed, 200, "Unsubscribed successfully")
        ELSE IF action = "logout"
        THEN IF cleaned.err # "" THEN OuterCatch(cleaned, env, connectionId)
             ELSE Response(cleaned, 200, "Logout successful")
        ELSE Response(v, 400, "Unknown action")

\* an unknown route treated as an unexpected error
unknownRouteAsError(ctx0) == Response(ctx0, 500, "Internal server error")

unknownRoute(ctx0) == Response(ctx0, 400, "Unknown route")

\* answers of the LaunchDarkly client and of the logger during one invocation:
\* whether waitForInitialization, logger.initialize and ldClient.flush resolve
LibAnswers == [init : BOOLEAN, initialize : BOOLEAN, flush : BOOLEAN]

\* the finally block: flush, then both close calls started together
handlerFinally(lib) ==
    IF lib.flush THEN <<"ldClient.flush", "logger.close", "ldClient.close">>
    ELSE <<"ldClient.flush">>

\* the handler around its route switch; r is the response of the route
handler(ctx0, lib, r) ==
    IF ~lib.init \/ ~lib.initialize
    THEN [completion |-> "rejected", statusCode |-> 0, reg |-> ctx0.reg, cleanup |-> <<>>]
    ELSE IF ~lib.flush
    THEN [completion |-> "rejected", statusCode |-> 0, reg |-> r.ctx.reg,
          cleanup |-> handlerFinally(lib)]
    ELSE [completion |-> "returned", statusCode |-> r.statusCode, reg |-> r.ctx.reg,
          cleanup |-> handlerFinally(lib)]

----
\* weatherAPI.js

\* locations: A and B have a name (or coordinates), N has neither
WeatherLocations == {"A", "B", "N"}

HasQuery(location) == location # "N"

WeatherKeys == {l \in WeatherLocations : HasQuery(l)}

LocationLists == UNION {[1..n -> WeatherLocations] : n \in 0..MaxLocations}

\* a freshness window of ten minutes
CACHE_TTL_TenMinutes == 10 * 60 * 1000

CACHE_TTL == 5 * 60 * 1000

\* what the provider answers to the request for a query; "pending" is a request
\* that has not settled when the global timer of getWeatherUpdates fires
ProviderOutcomes == {"ok", "fail", "pending"}

NoData == [location |-> "", error |-> "none", timestamp |-> NoNum, isStale |-> FALSE]

NoEntry == [data |-> NoData, timestamp |-> NoNum]

\* the formatted answer of the provider; its timestamp is the time of formatting
formatWeatherData(location) ==
    [location |-> location, error |-> "", timestamp |-> DateNow, isStale |-> FALSE]

\* a result tagged with an error
ErrorResult(location, message) ==
    [location |-> location, error |-> message, timestamp |-> DateNow, isStale |-> FALSE]

getLocationQuery(location) ==
    IF HasQuery(location) THEN [threw |-> FALSE, query |-> location, error |-> ""]
    ELSE [threw |-> TRUE, query |-> "",
          error |-> "Location must have either coordinates or name"]

\* outcome is the provider's answer, or the 10 s timer of the request ("fail");
\* the catch names the location by getLocationQuery, which throws again
getWeatherForLocation(location, outcome) ==
    LET q == getLocationQuery(location)
    IN  IF q.threw THEN [threw |-> TRUE, error |-> q.error, requested |-> FALSE, data |-> NoData]
        ELSE IF outcome = "ok"
        THEN [threw |-> FALSE, error |-> "", requested |-> TRUE, data |-> formatWeatherData(location)]
        ELSE [threw |-> TRUE, error |-> "Failed to fetch weather data", requested |-> TRUE,
              data |-> NoData]

Returned(results, requests) ==
    [threw |-> FALSE, error |-> "", results |-> results, requests |-> requests]

Thrown(message, requests) ==
    [threw |-> TRUE, error |-> message, results |-> <<>>, requests |-> requests]

RECURSIVE Queries(_)
Queries(locations) ==
    IF locations = <<>> THEN <<>>
    ELSE (IF HasQuery(Head(locations)) THEN <<Head(locations)>> ELSE <<>>)
         \o Queries(Tail(locations))

\* a getWeatherUpdates whose per-location catch throws the error again
getWeatherUpdatesRethrowing(locations, provider) ==
    LET n == Len(locations)
        answer(i) == IF HasQuery(locations[i]) THEN provider[locations[i]] ELSE "fail"
        one(i) == getWeatherForLocation(locations[i], answer(i))
    IN  IF n = 0 THEN Returned(<<>>, <<>>)
        ELSE IF \E i \in 1..n : answer(i) # "pending" /\ one(i).threw
        THEN Thrown(one(CHOOSE i \in 1..n : answer(i) # "pending" /\ one(i).threw).error,
                    Queries(locations))
        ELSE IF \E i \in 1..n : answer(i) = "pending"
        THEN Thrown("Weather updates global timeout", Queries(locations))
        ELSE Returned([i \in 1..n |-> one(i).data], Queries(locations))

\* Promise.all of the per-location promises raced against the global timer: a
\* per-location catch that throws rejects the batch; otherwise the timer wins
\* when a request is still pending
getWeatherUpdates(locations, provider) ==
    LET n == Len(locations)
        answer(i) == IF HasQuery(locations[i]) THEN provider[locations[i]] ELSE "fail"
        one(i) == getWeatherForLocation(locations[i], answer(i))
        rejected(i) == one(i).threw /\ getLocationQuery(locations[i]).threw
        result(i) == IF one(i).threw THEN ErrorResult(locations[i], one(i).error)
                     ELSE one(i).data
    IN  IF n = 0 THEN Returned(<<>>, <<>>)
        ELSE IF \E i \in 1..n : rejected(i)
        THEN Thrown("Location must have either coordinates or name", Queries(locations))
        ELSE IF \E i \in 1..n : answer(i) = "pending"
        THEN Thrown("Weather updates global timeout", Queries(locations))
        ELSE Returned([i \in 1..n |-> result(i)], Queries(locations))

\* one turn of the loop of getCachedWeather; acc holds the cache, the results
\* and the provider requests so far
CachedTurn(acc, location, forceFresh, provider) ==
    LET key == getLocationQuery(location)
        cached == acc.cache[key.query]
        hit == ~forceFresh /\ cached # NoEntry /\ (DateNow - cached.timestamp) < CACHE_TTL
        fresh == getWeatherForLocation(location, provider[key.query])
        asked == [acc EXCEPT !.requests = Append(@, key.query)]
    IN  IF key.threw THEN [acc EXCEPT !.threw = TRUE, !.error = key.error]
        ELSE IF hit THEN [acc EXCEPT !.results = Append(@, cached.data)]
        ELSE IF ~fresh.threw
        THEN [asked EXCEPT !.cache[key.query] = [data |-> fresh.data, timestamp |-> DateNow],
                           !.results = Append(@, fresh.data)]
        ELSE IF cached # NoEntry
        THEN [asked EXCEPT !.results = Append(@, [cached.data EXCEPT !.isStale = TRUE])]
        ELSE [asked EXCEPT !.results = Append(@, ErrorResult(location, fresh.error))]

RECURSIVE CachedLoop(_, _, _, _)
CachedLoop(acc, locations, forceFresh, provider) ==
    IF locations = <<>> \/ acc.threw THEN acc
    ELSE CachedLoop(CachedTurn(acc, Head(locations), forceFresh, provider),
                    Tail(locations), forceFresh, provider)

\* a throw of getLocationQuery ends the call; the entries set before it stay
getCachedWeather(cache, locations, forceFresh, provider) ==
    LET done == CachedLoop([cache |-> cache, results |-> <<>>, requests |-> <<>>,
                            threw |-> FALSE, error |-> ""],
                           locations, forceFresh, provider)
    IN  IF done.threw THEN [done EXCEPT !.results = <<>>] ELSE done

----
\* weather-queries.js

\* the weather_cache row of a location: store.last_updated is its time in
\* seconds (NoNum: no row); the query keeps a row updated in the last 5 minutes
wqGetWeatherForLocation(location, store) ==
    IF ~store.ok THEN ErrorResult(location, "ConnectionError")
    ELSE IF store.last_updated = NoNum \/ ~(store.last_updated > now - 5 * 60)
    THEN ErrorResult(location, "No recent weather data found for location ID")
    ELSE [location |-> location, error |-> "", timestamp |-> store.last_updated * 1000,
          isStale |-> FALSE]

wqGetWeatherUpdates(locations, store) ==
    IF Len(locations) = 0 THEN Returned(<<>>, <<>>)
    ELSE Returned([i \in 1..Len(locations) |-> wqGetWeatherForLocation(locations[i], store)],
                  <<>>)

----
\* database.js

\* outcomes[k] is what attempt k of the operation ends with: "ok", or the name
\* of the error it throws. "timeout": the timer of the attempt wins the race
\* and the operation, which nothing cancels, is still running when the next
\* attempt starts; "timeout:ended": the timer wins and the operation settles
\* during the backoff; "late" (of pool.getConnection): the timer wins and the
\* operation obtains its connection afterwards.
Abandoned == {"timeout", "late"}

\* acc.pending: abandoned operations still running; acc.overlap: the largest
\* number of operations running at once
RECURSIVE retryLoop(_, _, _, _)
retryLoop(outcomes, maxRetries, i, acc) ==
    IF ~(i < maxRetries) THEN [acc EXCEPT !.threw = TRUE]
    ELSE LET tried == [acc EXCEPT !.attempts = @ + 1,
                                  !.overlap = IF acc.pending + 1 > @ THEN acc.pending + 1 ELSE @]
         IN  IF outcomes[i + 1] = "ok" THEN tried
             ELSE retryLoop(outcomes, maxRetries, i + 1,
                            [tried EXCEPT !.error = outcomes[i + 1],
                                          !.pending = IF outcomes[i + 1] \in Abandoned
                                                      THEN @ + 1 ELSE @,
                                          !.delays = IF i < maxRetries - 1
                                                     THEN Append(@, (2 ^ i) * 100) ELSE @])

RetryStart ==
    [attempts |-> 0, delays |-> <<>>, threw |-> FALSE, error |-> "undefined",
     pending |-> 0, overlap |-> 0]

\* a retryOperation that gives up after the first failed attempt
retryOperationOnce(outcomes, maxRetries) ==
    retryLoop(outcomes, IF maxRetries > 0 THEN 1 ELSE 0, 0, RetryStart)

retryOperation(outcomes, maxRetries) ==
    retryLoop(outcomes, maxRetries, 0, RetryStart)

\* numbers of attempts getConnection and getLocationsForUser allow
AcquireRetries == 3
CheckRetries == 2
ExecuteRetries == 3

AcquireOutcomes == {"ok", "ECONNREFUSED", "timeout", "late"}
QueryOutcomes == {"ok", "ER_LOCK_WAIT_TIMEOUT", "timeout"}

\* obtained: connections the pool handed out; connection: whether one is returned
getConnection(acquire, check) ==
    LET a == retryOperation(acquire, AcquireRetries)
        late == Cardinality({k \in 1..a.attempts : acquire[k] = "late"})
        c == retryOperation(check, CheckRetries)
    IN  IF a.threw THEN [threw |-> TRUE, obtained |-> late, connection |-> FALSE,
                         calls |-> <<"pool.getConnection">>]
        ELSE IF c.threw THEN [threw |-> TRUE, obtained |-> late + 1, connection |-> FALSE,
                              calls |-> <<"pool.getConnection", "SELECT 1">>]
        ELSE [threw |-> FALSE, obtained |-> late + 1, connection |-> TRUE,
              calls |-> <<"pool.getConnection", "SELECT 1">>]

getLocationsForUser(acquire, check, execute) ==
    LET g == getConnection(acquire, check)
        q == retryOperation(execute, ExecuteRetries)
        executed == IF g.threw THEN g.calls ELSE Append(g.calls, "getUserLocations")
    IN  [threw |-> g.threw \/ q.threw,
         obtained |-> g.obtained,
         released |-> IF g.connection THEN 1 ELSE 0,
         calls |-> IF g.connection THEN Append(executed, "connection.release") ELSE executed]

\* an attempt raced against a timer that is never started
raceUntimed(outcome) == outcome \notin Abandoned

\* Promise.race([operation(), timeoutPromise]) settles whatever the operation
\* does: when the operation stays pending the timer rejects
race(outcome) == TRUE

\* the attempts a retryOperation makes, with what each ends with
attemptsOf(outcomes, maxRetries) ==
    SubSeq(outcomes, 1, retryOperation(outcomes, maxRetries).attempts)

\* the attempts of one call of getLocationsForUser, in order
attemptsOfGetLocationsForUser(acquire, check, execute) ==
    LET a == retryOperation(acquire, AcquireRetries)
        c == retryOperation(check, CheckRetries)
    IN  attemptsOf(acquire, AcquireRetries)
        \o (IF a.threw THEN <<>>
            ELSE attemptsOf(check, CheckRetries)
                 \o (IF c.threw THEN <<>> ELSE attemptsOf(execute, ExecuteRetries)))

----
\* One invocation of the handler

NoInvocation ==
    [route |-> "none", action |-> "", connectionId |-> "c1", token |-> NoToken,
     providedUserId |-> NoUser, locationId |-> NoLoc, at |-> T0, statusCode |-> 0,
     message |-> "", calls |-> <<>>, pushes |-> <<>>, mutated |-> FALSE,
     faults |-> {}, db |-> [ok |-> TRUE, rows |-> <<>>]]

\* the response of a route together with the answers the environment gave it
Answered(r, env, db) ==
    [ctx |-> r.ctx, statusCode |-> r.statusCode, message |-> r.message,
     faults |-> env.faults, db |-> db]

Summary(route, action, connectionId, token, providedUserId, locationId, r) ==
    [route |-> route, action |-> action, connectionId |-> connectionId,
     token |-> token, providedUserId |-> providedUserId, locationId |-> locationId,
     at |-> now, statusCode |-> r.statusCode, message |-> r.message,
     calls |-> r.ctx.calls, pushes |-> r.ctx.pushes,
     mutated |-> (r.ctx.reg # registry),
     faults |-> r.faults, db |-> r.db]

\* the invocation asked the environment for every answer of env and db that is
\* not the quiet one (an answer it never asked for cannot change what it does)
Consulted(env, db, r) ==
    /\ \A k \in env.faults : k <= r.ctx.n
    /\ r.ctx.p = 0 => env.transport = "ok"
    /\ (\A k \in 1..Len(r.ctx.calls) : r.ctx.calls[k] # "getLocationsForUser")
          => db = [ok |-> TRUE, rows |-> <<>>]

Finish(route, action, connectionId, token, providedUserId, locationId, r) ==
    /\ registry' = r.ctx.reg
    /\ last' = Summary(route, action, connectionId, token, providedUserId, locationId, r)
    /\ UNCHANGED <<now, keySchema, jwtSecretSet, weatherCache>>

Accepted(token) == verifyToken(token).ok

Connect ==
    /\ last = NoInvocation
    /\ \E connectionId \in Conns, token \in Tokens, providedUserId \in ProvidedIds :
        LET reach == /\ Accepted(token)
                     /\ isValidUser(verifyToken(token), providedUserId)
        IN  \E env \in (IF reach THEN Envs(connectionId, token.userId) ELSE QuietEnvs),
               db \in (IF reach THEN DbAnswers ELSE NoDb) :
                \E r \in {Answered(connectRoute(Ctx0(registry), env, db, connectionId, token,
                                             providedUserId), env, db)} :
                    /\ Consulted(env, db, r)
                    /\ Finish("$connect", "", connectionId, token, providedUserId, NoLoc, r)

Disconnect ==
    /\ last = NoInvocation
    /\ \E connectionId \in Conns : \E env \in Envs(connectionId, NoUser) :
        \E r \in {Answered(disconnectRoute(Ctx0(registry), env, connectionId), env,
                           [ok |-> TRUE, rows |-> <<>>])} :
            /\ Consulted(env, [ok |-> TRUE, rows |-> <<>>], r)
            /\ Finish("$disconnect", "", connectionId, NoToken, NoUser, NoLoc, r)

\* the locations field of a getWeather message: absent or one saved location
Requests == {<<>>, <<"loc-7">>}

GetWeather ==
    /\ last = NoInvocation
    /\ \E connectionId \in Conns, bodyOk \in BOOLEAN, token \in MessageTokens :
        LET reach == bodyOk /\ Accepted(token)
        IN  /\ ~bodyOk => token = NoToken
            /\ \E env \in Envs(connectionId, token.userId), db \in (IF reach THEN DbAnswers ELSE NoDb) :
                \E locations \in (IF reach /\ db.rows # <<>> THEN Requests ELSE {<<>>}) :
                \E r \in {Answered(getWeatherRoute(Ctx0(registry), env, db, connectionId,
                                                bodyOk, token, locations), env, db)} :
                    /\ Consulted(env, db, r)
                    /\ Finish("getWeather", IF bodyOk THEN "" ELSE "malformed", connectionId,
                       token, NoUser, NoLoc, r)

\* a location_id that is in no saved list
UnsavedLoc == "loc-9"

\* the locations field of a getWeather message, saved and unsaved ids alike
WideRequests ==
    {<<>>, <<"loc-7">>, <<"loc-8">>, <<UnsavedLoc>>, <<"loc-7", UnsavedLoc>>,
     <<"loc-8", "loc-7">>}

\* a getWeather message with a valid token, observed together with its request
GetWeatherRequest ==
    /\ last = NoInvocation
    /\ \E connectionId \in Conns, token \in MessageTokens :
        /\ Accepted(token)
        /\ \E env \in Envs(connectionId, token.userId), db \in DbAnswers :
            \E locations \in WideRequests :
            \E r \in {Answered(getWeatherRoute(Ctx0(registry), env, db, connectionId,
                                            TRUE, token, locations), env, db)} :
                /\ Consulted(env, db, r)
                /\ registry' = r.ctx.reg
                /\ last' = [route |-> "getWeather:request", connectionId |-> connectionId,
                            token |-> token, request |-> locations, saved |-> db.rows,
                            statusCode |-> r.statusCode, pushes |-> r.ctx.pushes]
                /\ UNCHANGED <<now, keySchema, jwtSecretSet, weatherCache>>

RouteKeys == {"$connect", "$disconnect", "getWeather", "locationUpdate", "$default", "unknown"}

\* the user context the handler builds for the logger before it routes the event
BuildContext ==
    /\ last = NoInvocation
    /\ \E routeKey \in RouteKeys, query \in Tokens, bodyOk \in BOOLEAN, body \in Tokens :
        /\ last' = [route |-> "createUserContext", routeKey |-> routeKey, query |-> query,
                    bodyOk |-> bodyOk, body |-> body, at |-> now,
                    context |-> createUserContext(getTokenFromEvent(routeKey, query, bodyOk, body))]
        /\ UNCHANGED <<registry, now, keySchema, jwtSecretSet, weatherCache>>

\* one invocation of the handler from LaunchDarkly.init to the finally block, on
\* the routes $connect, $disconnect and an unknown one
Invoke ==
    /\ last = NoInvocation
    /\ \E lib \in LibAnswers, routeKey \in {"$connect", "$disconnect", "unknown"},
          connectionId \in Conns, token \in Tokens :
        LET reach == routeKey = "$connect" /\ Accepted(token)
            runs == lib.init /\ lib.initialize
        IN  /\ routeKey # "$connect" => token = NoToken
            /\ ~lib.init => lib.initialize /\ lib.flush
            /\ ~lib.initialize => lib.flush
            /\ \E env \in (IF runs THEN Envs(connectionId, token.userId) ELSE QuietEnvs),
                  db \in (IF runs /\ reach THEN DbAnswers ELSE NoDb) :
                \E r \in {IF routeKey = "$connect"
                           THEN connectRoute(Ctx0(registry), env, db, connectionId, token,
                                             token.userId)
                           ELSE IF routeKey = "$disconnect"
                           THEN disconnectRoute(Ctx0(registry), env, connectionId)
                           ELSE unknownRoute(Ctx0(registry))} :
                \E h \in {handler(Ctx0(registry), lib, r)} :
                    /\ runs => Consulted(env, db, r)
                    /\ registry' = h.reg
                    /\ last' = [route |-> "handler", routeKey |-> routeKey,
                                connectionId |-> connectionId, lib |-> lib,
                                completion |-> h.completion, statusCode |-> h.statusCode,
                                cleanup |-> h.cleanup]
                    /\ UNCHANGED <<now, keySchema, jwtSecretSet, weatherCache>>

LocationUpdate ==
    /\ last = NoInvocation
    /\ \E connectionId \in Conns, bodyOk \in BOOLEAN, token \in MessageTokens :
        LET reach == bodyOk /\ Accepted(token)
        IN  /\ ~bodyOk => token = NoToken
            /\ \E env \in Envs(connectionId, token.userId), db \in (IF reach THEN DbAnswers ELSE NoDb) :
                \E r \in {Answered(locationUpdateRoute(Ctx0(registry), env, db, connectionId,
                                                    bodyOk, token), env, db)} :
                    /\ Consulted(env, db, r)
                    /\ Finish("locationUpdate", IF bodyOk THEN "" ELSE "malformed", connectionId,
                       token, NoUser, NoLoc, r)

Actions == {"subscribe", "unsubscribe", "logout", "other"}

DefaultWith(actions) ==
    /\ last = NoInvocation
    /\ \E connectionId \in Conns, bodyOk \in BOOLEAN, token \in MessageTokens, action \in actions,
       locationId \in Locs \cup {NoLoc} :
        LET reach == bodyOk /\ Accepted(token) /\ action = "subscribe" /\ locationId # NoLoc
            silent == bodyOk /\ Accepted(token)
                      /\ (action = "other" \/ (action = "subscribe" /\ locationId = NoLoc))
        IN  /\ ~bodyOk => (token = NoToken /\ action = "other")
            /\ action # "subscribe" => locationId = NoLoc
            /\ ~Accepted(token) => locationId = NoLoc
            /\ \E env \in (IF silent THEN QuietEnvs ELSE Envs(connectionId, token.userId)),
                  db \in (IF reach THEN DbAnswers ELSE NoDb) :
                \E r \in {Answered(defaultRoute(Ctx0(registry), env, db, connectionId, bodyOk,
                                             token, action, locationId), env, db)} :
                    /\ Consulted(env, db, r)
                    /\ Finish("$default", IF bodyOk THEN action ELSE "malformed", connectionId,
                              token, NoUser, locationId, r)

Default == DefaultWith(Actions)

\* the $default route restricted to logout messages
Logout == DefaultWith({"logout"})

UnknownRoute ==
    /\ last = NoInvocation
    /\ \E connectionId \in Conns :
        Finish("unknown", "", connectionId, NoToken, NoUser, NoLoc,
               Answered(unknownRoute(Ctx0(registry)), [faults |-> {}],
                        [ok |-> TRUE, rows |-> <<>>]))

\* a call of getActiveConnections (the handler makes none): its items are kept
\* in the record of the invocation
ListActive ==
    /\ last = NoInvocation
    /\ \E env \in {e \in Envs("c1", NoUser) : e.transport = "ok" /\ e.first = NoUser} :
        \E r \in {getActiveConnections(Ctx0(registry), env)} :
            /\ \A k \in env.faults : k <= r.ctx.n
            /\ last' = Summary("getActiveConnections", "", "c1", NoToken, NoUser, NoLoc,
                               Answered(Response(r.ctx, 0, r.ctx.err), env,
                                        [ok |-> TRUE, rows |-> <<>>]))
                           @@ [items |-> r.items]
            /\ UNCHANGED <<registry, now, keySchema, jwtSecretSet, weatherCache>>

\* a call of broadcastToUserConnections (the handler makes none)
Broadcast ==
    /\ last = NoInvocation
    /\ \E userId \in Users, outcomes \in [Conns -> Outcomes],
          env \in [faults : {{}} \cup {{k} : k \in 1..MaxFaultIndex},
                   transport : {"ok"}, first : Users] :
        \E r \in {broadcastToUserConnections(Ctx0(registry), env, userId, outcomes)} :
            /\ \A k \in env.faults : k <= r.n
            /\ \A c \in Conns :
                 (\A k \in 1..Len(r.pushes) : r.pushes[k].connectionId # c)
                    => outcomes[c] = "ok"
            /\ env.first = userId
            /\ Finish("broadcastToUserConnections", "", "c1", NoToken, userId, NoLoc,
                      Answered(Response(r, 0, r.err), env, [ok |-> TRUE, rows |-> <<>>]))

\* Two subscribe requests on one connection running at the same time.  Each
\* is a handler invocation of its own; its UpdateCommand is one atomic request
\* to DynamoDB, and the requests of the two interleave in any order.
Procs == {1, 2}

\* the two invocations have verified their tokens and read their locationId
StartSubscribes ==
    /\ last = NoInvocation
    /\ \E connectionId \in Conns, l1 \in Locs, l2 \in Locs :
        last' = [route |-> "subscribe||subscribe", connectionId |-> connectionId, at |-> now,
                 locationId |-> <<l1, l2>>,
                 pc |-> [p \in Procs |-> "update"],
                 statusCode |-> [p \in Procs |-> 0],
                 error |-> [p \in Procs |-> ""],
                 order |-> <<>>]
    /\ UNCHANGED <<registry, now, keySchema, jwtSecretSet, weatherCache>>

\* await updateConnectionLocations(connectionId, locationId); a throw goes to
\* the outer catch
SubscribeUpdate ==
    /\ last.route = "subscribe||subscribe"
    /\ \E p \in Procs, env \in [faults : {{}, {1}}, transport : Outcomes, first : Users] :
        LET updated == updateConnectionLocations(Ctx0(registry), env, last.connectionId,
                                                 LocString(last.locationId[p]))
            failed == OuterCatch(updated, env, last.connectionId)
        IN  /\ last.pc[p] = "update"
            /\ updated.err = "" => env.transport = "ok"
            /\ IF updated.err # ""
               THEN /\ registry' = failed.ctx.reg
                    /\ last' = [last EXCEPT !.pc[p] = "done",
                                            !.statusCode[p] = failed.statusCode,
                                            !.error[p] = updated.err]
               ELSE /\ registry' = updated.reg
                    /\ last' = [last EXCEPT !.pc[p] = "push", !.order = Append(@, p)]
    /\ UNCHANGED <<now, keySchema, jwtSecretSet, weatherCache>>

\* getLocationsForUser, processWeatherData, the weatherUpdate push, return 200
SubscribePush ==
    /\ last.route = "subscribe||subscribe"
    /\ \E p \in Procs, db \in DbAnswers,
          env \in [faults : {{}, {1}}, transport : Outcomes, first : Users] :
        LET located == Log(Ctx0(registry), "getLocationsForUser")
            sent == sendMessageToClient(located, env, last.connectionId,
                                        Payload("weatherUpdate", processWeatherData(db.rows)))
            r == IF ~db.ok THEN OuterCatch(Throw(located, "ConnectionError"), env,
                                           last.connectionId)
                 ELSE IF sent.err # "" THEN OuterCatch(sent, env, last.connectionId)
                 ELSE Response(sent, 200, "Subscribed successfully")
        IN  /\ last.pc[p] = "push"
            /\ \A k \in env.faults : k <= r.ctx.n
            /\ registry' = r.ctx.reg
            /\ last' = [last EXCEPT !.pc[p] = "done",
                                    !.statusCode[p] = r.statusCode,
                                    !.error[p] = IF ~db.ok THEN "ConnectionError" ELSE sent.err]
    /\ UNCHANGED <<now, keySchema, jwtSecretSet, weatherCache>>

\* A logout of a user running at the same time as a $connect of the same user
\* on another connection.  The scan of cleanupUserConnections and its deletes
\* are separate requests to DynamoDB; the $connect, an invocation of its own,
\* can run between them.
StartLogout ==
    /\ last = NoInvocation
    /\ \E userId \in Users, connectionId \in Conns :
        last' = [route |-> "logout||$connect", userId |-> userId,
                 connectionId |-> connectionId, at |-> now,
                 pc |-> [logout |-> "scan", connect |-> "store"],
                 Items |-> {},
                 statusCode |-> [logout |-> 0, connect |-> 0],
                 left |-> {}]
    /\ UNCHANGED <<registry, now, keySchema, jwtSecretSet, weatherCache>>

\* the ScanCommand of cleanupUserConnections; a throw goes to the outer catch
LogoutScan ==
    /\ last.route = "logout||$connect"
    /\ last.pc.logout = "scan"
    /\ \E env \in [faults : {{}, {1}}, transport : {"ok"}, first : {NoUser}] :
        LET s == ScanCommand(Log(Ctx0(registry), "cleanupUserConnections"), env)
        IN  /\ last' = IF s.err # ""
                       THEN [last EXCEPT !.pc.logout = "done", !.statusCode.logout = 500]
                       ELSE [last EXCEPT !.pc.logout = "delete",
                                         !.Items = {i \in registry : i.userId = last.userId}]
    /\ UNCHANGED <<registry, now, keySchema, jwtSecretSet, weatherCache>>

\* the DeleteCommands of the scanned items and the response of the logout
LogoutDelete ==
    /\ last.route = "logout||$connect"
    /\ last.pc.logout = "delete"
    /\ \E env \in [faults : {{}, {1}}, transport : {"ok"}, first : {NoUser}] :
        LET cleaned == deleteScanned(Ctx0(registry), env, last.Items)
        IN  /\ \A k \in env.faults : k <= cleaned.n
            /\ registry' = cleaned.reg
            /\ last' = [last EXCEPT !.pc.logout = "done",
                                    !.statusCode.logout = IF cleaned.err # "" THEN 500 ELSE 200,
                                    !.left = {i \in cleaned.reg : i.userId = last.userId}]
    /\ UNCHANGED <<now, keySchema, jwtSecretSet, weatherCache>>

\* the $connect of the same user, with a valid token, from storeConnection to
\* its response
ConnectDuringLogout ==
    /\ last.route = "logout||$connect"
    /\ last.pc.connect = "store"
    /\ \E env \in Envs(last.connectionId, last.userId), db \in DbAnswers :
        LET token == Jwt("good", FarExp, last.userId, UsernameOf(last.userId))
            r == connectRoute(Ctx0(registry), env, db, last.connectionId, token, last.userId)
        IN  /\ jwtSecretSet
            /\ Consulted(env, db, r)
            /\ registry' = r.ctx.reg
            /\ last' = [last EXCEPT !.pc.connect = "done",
                                    !.statusCode.connect = r.statusCode]
    /\ UNCHANGED <<now, keySchema, jwtSecretSet, weatherCache>>

\* An invocation step by step: every request it awaits is a step that takes
\* place when the request settles.

\* what the attempts on the relational store end with, when they are not all ok
PoolScenarios ==
    [acquire : {<<"ok", "ok", "ok">>, <<"timeout", "ECONNREFUSED", "ok">>,
                <<"timeout", "timeout", "timeout">>},
     check : {<<"ok", "ok">>, <<"timeout", "timeout">>},
     execute : {<<"ok", "ok", "ok">>, <<"ER_LOCK_WAIT_TIMEOUT", "timeout", "ok">>,
                <<"timeout", "timeout", "timeout">>}]

\* the awaited steps of an invocation that made the given calls: each call is
\* one request, except getLocationsForUser, which is the attempts of pool
RECURSIVE Steps(_, _)
Steps(calls, pool) ==
    IF calls = <<>> THEN <<>>
    ELSE (IF Head(calls) = "getLocationsForUser"
          THEN [k \in 1..Len(pool) |-> [call |-> "getLocationsForUser", outcome |-> pool[k]]]
          ELSE <<[call |-> Head(calls), outcome |-> "settled"]>>)
         \o Steps(Tail(calls), pool)

\* no token, the valid token of user 42 and one of user 42 that expired at T0
InvocationTokens ==
    {NoToken, Jwt("good", FarExp, "42", "alice"), Jwt("good", T0, "42", "alice")}

StartInvocation ==
    /\ last = NoInvocation
    /\ \E routeKey \in {"$connect", "$disconnect", "getWeather", "logout"},
          connectionId \in Conns, token \in InvocationTokens :
        LET reach == Accepted(token) /\ routeKey \in {"$connect", "getWeather"}
        IN  /\ routeKey = "$disconnect" => token = NoToken
            /\ \E env \in Envs(connectionId, token.userId),
                  db \in (IF reach THEN DbAnswers ELSE NoDb),
                  scenario \in PoolScenarios :
                \E r \in {IF routeKey = "$connect"
                           THEN connectRoute(Ctx0(registry), env, db, connectionId, token,
                                             token.userId)
                           ELSE IF routeKey = "$disconnect"
                           THEN disconnectRoute(Ctx0(registry), env, connectionId)
                           ELSE IF routeKey = "getWeather"
                           THEN getWeatherRoute(Ctx0(registry), env, db, connectionId, TRUE,
                                                token, <<>>)
                           ELSE defaultRoute(Ctx0(registry), env, db, connectionId, TRUE,
                                             token, "logout", NoLoc)} :
                    /\ Consulted(env, db, r)
                    /\ db.ok = ~getLocationsForUser(scenario.acquire, scenario.check,
                                                     scenario.execute).threw
                    /\ last' = [route |-> "running", routeKey |-> routeKey,
                                pending |-> Steps(r.ctx.calls,
                                                  attemptsOfGetLocationsForUser(
                                                      scenario.acquire, scenario.check,
                                                      scenario.execute)),
                                settled |-> 0, abandoned |-> 0,
                                response |-> r.statusCode, reg |-> r.ctx.reg, statusCode |-> 0]
    /\ UNCHANGED <<registry, now, keySchema, jwtSecretSet, weatherCache>>

\* the request the invocation awaits settles, or its timer fires
Settle ==
    /\ last.route = "running"
    /\ last.pending # <<>>
    /\ race(Head(last.pending).outcome)
    /\ last' = [last EXCEPT !.pending = Tail(@), !.settled = @ + 1,
                            !.abandoned = IF Head(last.pending).outcome \in Abandoned
                                          THEN @ + 1 ELSE @]
    /\ UNCHANGED <<registry, now, keySchema, jwtSecretSet, weatherCache>>

\* nothing is left to await: the handler returns its response
Return ==
    /\ last.route = "running"
    /\ last.pending = <<>>
    /\ registry' = last.reg
    /\ last' = [last EXCEPT !.route = "returned", !.statusCode = last.response]
    /\ UNCHANGED <<now, keySchema, jwtSecretSet, weatherCache>>

\* the response has been delivered
Delivered ==
    /\ last.route = "returned"
    /\ last' = NoInvocation
    /\ UNCHANGED <<registry, now, keySchema, jwtSecretSet, weatherCache>>

\* calls of the weather functions and of retryOperation (the handler makes none)
WeatherCall(route, locations, forceFresh, provider, store, r) ==
    [route |-> route, at |-> now, locations |-> locations, forceFresh |-> forceFresh,
     provider |-> provider, store |-> store, threw |-> r.threw, error |-> r.error,
     results |-> r.results, requests |-> r.requests]

NoStore == [ok |-> TRUE, last_updated |-> NoNum]

NoProvider == [k \in WeatherKeys |-> "ok"]

\* the provider is asked about the locations of the call only
Asked(locations, provider) ==
    \A k \in WeatherKeys :
        (\A i \in 1..Len(locations) : locations[i] # k) => provider[k] = "ok"

CallGetWeatherUpdates ==
    /\ last = NoInvocation
    /\ \E locations \in LocationLists, provider \in [WeatherKeys -> ProviderOutcomes] :
        /\ Asked(locations, provider)
        /\ last' = WeatherCall("getWeatherUpdates", locations, FALSE, provider, NoStore,
                               getWeatherUpdates(locations, provider))
    /\ UNCHANGED <<registry, now, keySchema, jwtSecretSet, weatherCache>>

CallGetCachedWeather ==
    /\ last = NoInvocation
    /\ \E locations \in LocationLists, forceFresh \in BOOLEAN,
          provider \in [WeatherKeys -> {"ok", "fail"}] :
        /\ Asked(locations, provider)
        /\ \E r \in {getCachedWeather(weatherCache, locations, forceFresh, provider)} :
            /\ last' = WeatherCall("getCachedWeather", locations, forceFresh, provider,
                                   NoStore, r)
            /\ weatherCache' = r.cache
    /\ UNCHANGED <<registry, now, keySchema, jwtSecretSet>>

StoreTimes ==
    {NoNum} \cup {T0 + k * WeatherTickSeconds : k \in 0..MaxWeatherTicks}

CallStoreWeatherUpdates ==
    /\ last = NoInvocation
    /\ \E locations \in LocationLists,
          store \in [ok : BOOLEAN, last_updated : {t \in StoreTimes : t <= now}] :
        /\ ~store.ok => store.last_updated = NoNum
        /\ last' = WeatherCall("weather-queries.getWeatherUpdates", locations, FALSE,
                               NoProvider, store, wqGetWeatherUpdates(locations, store))
    /\ UNCHANGED <<registry, now, keySchema, jwtSecretSet, weatherCache>>

WeatherTick ==
    /\ last = NoInvocation
    /\ now < T0 + MaxWeatherTicks * WeatherTickSeconds
    /\ now' = now + WeatherTickSeconds
    /\ UNCHANGED <<registry, keySchema, jwtSecretSet, last, weatherCache>>

AttemptOutcomes == {"ok", "ECONNRESET", "ETIMEDOUT", "timeout", "timeout:ended"}

CallRetryOperation ==
    /\ last = NoInvocation
    /\ \E maxRetries \in 0..MaxAttempts, outcomes \in [1..MaxAttempts -> AttemptOutcomes] :
        \E r \in {retryOperation(outcomes, maxRetries)} :
            last' = [route |-> "retryOperation", at |-> now, maxRetries |-> maxRetries,
                     outcomes |-> outcomes, attempts |-> r.attempts, delays |-> r.delays,
                     threw |-> r.threw, error |-> r.error, overlap |-> r.overlap]
    /\ UNCHANGED <<registry, now, keySchema, jwtSecretSet, weatherCache>>

\* a call of getLocationsForUser with the outcomes of its attempts to obtain a
\* connection, to check it and to run the query
CallGetLocationsForUser ==
    /\ last = NoInvocation
    /\ \E acquire \in [1..AcquireRetries -> AcquireOutcomes],
          check \in [1..CheckRetries -> QueryOutcomes],
          execute \in [1..ExecuteRetries -> QueryOutcomes] :
        \E r \in {getLocationsForUser(acquire, check, execute)} :
            /\ (retryOperation(acquire, AcquireRetries).threw
                   => check = [k \in 1..CheckRetries |-> "ok"])
            /\ (r.released = 0 => execute = [k \in 1..ExecuteRetries |-> "ok"])
            /\ last' = [route |-> "getLocationsForUser", at |-> now, acquire |-> acquire,
                        check |-> check, execute |-> execute, threw |-> r.threw,
                        obtained |-> r.obtained, released |-> r.released, calls |-> r.calls]
    /\ UNCHANGED <<registry, now, keySchema, jwtSecretSet, weatherCache>>

\* the response has been returned: the record of the invocation is dropped
Complete ==
    /\ last # NoInvocation
    /\ last' = NoInvocation
    /\ UNCHANGED <<registry, now, keySchema, jwtSecretSet, weatherCache>>

Tick ==
    /\ last = NoInvocation
    /\ now < T0 + MaxTicks * TickSeconds
    /\ now' = now + TickSeconds
    /\ UNCHANGED <<registry, keySchema, jwtSecretSet, last, weatherCache>>

Init ==
    /\ registry = {}
    /\ now = T0
    /\ keySchema \in {"connectionId", "connectionId+userId"}
    /\ jwtSecretSet \in BOOLEAN
    /\ last = NoInvocation
    /\ weatherCache = [k \in WeatherKeys |-> NoEntry]

Next ==
    \/ Connect
    \/ Disconnect
    \/ GetWeather
    \/ LocationUpdate
    \/ Default
    \/ UnknownRoute
    \/ ListActive
    \/ Complete
    \/ Tick

Spec == Init /\ [][Next]_vars

\* the connection lifecycle alone: $connect and $disconnect
NextConnect ==
    \/ Connect
    \/ Disconnect
    \/ Complete
    \/ Tick

SpecConnect == Init /\ [][NextConnect]_vars

\* every route of the handler, at one instant
NextRoutes ==
    \/ Connect
    \/ Disconnect
    \/ GetWeather
    \/ LocationUpdate
    \/ Default
    \/ UnknownRoute
    \/ Complete

SpecRoutes == Init /\ [][NextRoutes]_vars

\* connections and logout
NextLogout ==
    \/ Connect
    \/ Logout
    \/ Complete
    \/ Tick

SpecLogout == Init /\ [][NextLogout]_vars

\* connections and the listing of the active ones
NextRegistry ==
    \/ Connect
    \/ ListActive
    \/ Complete
    \/ Tick

SpecRegistry == Init /\ [][NextRegistry]_vars

\* connections and the fan-out to the connections of a user
NextBroadcast ==
    \/ Connect
    \/ Broadcast
    \/ Complete
    \/ Tick

SpecBroadcast == Init /\ [][NextBroadcast]_vars

\* connections and pairs of concurrent subscribe requests
NextSubscribe ==
    \/ Connect
    \/ StartSubscribes
    \/ SubscribeUpdate
    \/ SubscribePush
    \/ Complete

SpecSubscribe == Init /\ [][NextSubscribe]_vars

\* connections and getWeather messages with their requests
NextGetWeather ==
    \/ Connect
    \/ GetWeatherRequest
    \/ Complete

SpecGetWeather == Init /\ [][NextGetWeather]_vars

\* the user context of the logger, as tokens expire
NextContext ==
    \/ BuildContext
    \/ Complete
    \/ Tick

SpecContext == Init /\ [][NextContext]_vars

\* whole invocations, with the LaunchDarkly client and the logger
NextCleanup ==
    \/ Invoke
    \/ Complete
    \/ Tick

SpecCleanup == Init /\ [][NextCleanup]_vars

\* the weather functions of weatherAPI.js and weather-queries.js
NextWeather ==
    \/ CallGetWeatherUpdates
    \/ CallGetCachedWeather
    \/ CallStoreWeatherUpdates
    \/ Complete
    \/ WeatherTick

SpecWeather == Init /\ [][NextWeather]_vars

\* retryOperation of database.js
NextRetry ==
    \/ CallRetryOperation
    \/ Complete

SpecRetry == Init /\ [][NextRetry]_vars

\* connections and a logout that runs at the same time as a $connect
NextLogoutRace ==
    \/ Connect
    \/ StartLogout
    \/ LogoutScan
    \/ LogoutDelete
    \/ ConnectDuringLogout
    \/ Complete

SpecLogoutRace == Init /\ [][NextLogoutRace]_vars

\* invocations step by step; every awaited request settles in the end (the
\* clients and retryOperation put a deadline on each) and the event loop then
\* runs the continuation
NextTermination ==
    \/ StartInvocation
    \/ Settle
    \/ Return
    \/ Delivered

SpecTermination ==
    Init /\ [][NextTermination]_vars /\ WF_vars(Settle) /\ WF_vars(Return)

\* getLocationsForUser of database.js and its pool
NextPool ==
    \/ CallGetLocationsForUser
    \/ Complete

SpecPool == Init /\ [][NextPool]_vars

----
\* Vocabulary of the properties

\* the routes that take a token
TokenRoutes == {"$connect", "getWeather", "locationUpdate", "$default"}

\* the token itself is missing, forged, expired at time t, or lacks a claim
TokenBad(token, t) ==
    \/ token.kind = "none"
    \/ token.sig # "good"
    \/ t >= token.exp
    \/ token.userId = NoUser
    \/ token.username = NoUser

\* verification of the token cannot succeed at time t
TokenFails(token, t) == TokenBad(token, t) \/ ~jwtSecretSet

Called(name) == \E k \in 1..Len(last.calls) : last.calls[k] = name

Count(name) == Cardinality({k \in 1..Len(last.calls) : last.calls[k] = name})

RecordsOf(reg, connectionId) == {i \in reg : i.connectionId = connectionId}

Pushed(type) == {k \in 1..Len(last.pushes) : last.pushes[k].type = type}

\* the step is an invocation of the handler on the given route
Invokes(route) == last = NoInvocation /\ last'.route = route

----
\* Properties

\* C1: on the token routes every change of the registry is preceded, in the
\* same invocation, by a verifyToken that succeeded; with a token that is
\* missing or fails verification the registry is left as it was, also on the
\* paths that push an error message to the client.
C1_MutationOnlyAfterVerifiedToken ==
    (last.route \in TokenRoutes /\ last.action # "malformed" /\ last.mutated)
        => /\ ~TokenFails(last.token, last.at)
           /\ \E k \in 1..Len(last.calls) :
                /\ last.calls[k] = "verifyToken:ok"
                /\ \A j \in 1..(k - 1) : last.calls[j] \notin {"Put", "Delete", "Update"}

\* C2: on every token route a token that is missing, expired or fails
\* verification is answered with 401 and never with 500 (stated here for a
\* handler whose JWT secret is configured and whose pushes are all delivered).
C2_BadTokenAnswered401 ==
    (/\ jwtSecretSet
     /\ \A k \in 1..Len(last.pushes) : last.pushes[k].outcome = "ok"
     /\ last.route \in TokenRoutes
     /\ last.route = "$default" => last.action \in {"subscribe", "unsubscribe", "logout"}
     /\ last.action # "malformed"
     /\ TokenBad(last.token, last.at))
        => last.statusCode = 401

\* C3: a $connect whose token fails verification (bad signature, elapsed
\* expiry, missing claim, missing secret) returns 401, never calls
\* storeConnection and leaves the registry without a new record.
C3_ConnectRejectsFailedToken ==
    (last.route = "$connect" /\ last.token.kind = "jwt" /\ TokenFails(last.token, last.at))
        => /\ last.statusCode = 401
           /\ ~Called("storeConnection")
           /\ ~last.mutated

C3_Witness ==
    /\ last.route = "$connect"
    /\ last.token.kind = "jwt"
    /\ last.providedUserId = last.token.userId
    /\ last.at >= last.token.exp
    /\ jwtSecretSet
    /\ Called("verifyToken:throw")
    /\ last.statusCode = 401
    /\ RecordsOf(registry, last.connectionId) = {}

\* C4: a $connect whose userId parameter equals neither the userId nor the
\* username of its verified token returns 401, stores no record and pushes
\* nothing.
C4_ConnectRejectsForeignUserId ==
    (/\ last.route = "$connect"
     /\ ~TokenFails(last.token, last.at)
     /\ last.providedUserId # NoUser
     /\ last.providedUserId \notin {last.token.userId, last.token.username})
        => /\ last.statusCode = 401
           /\ ~Called("storeConnection")
           /\ ~last.mutated
           /\ last.pushes = <<>>

C4_Witness ==
    /\ last.route = "$connect"
    /\ ~TokenFails(last.token, last.at)
    /\ last.token.userId = "42"
    /\ last.providedUserId = "99"
    /\ Called("verifyToken:ok")
    /\ last.statusCode = 401
    /\ RecordsOf(registry, last.connectionId) = {}

\* C5: when a $connect stores a connectionId that storeConnection has stored
\* before, and returns 200 with every push delivered, the registry still holds
\* exactly one record of that connectionId and it is the record of the first
\* call (its userId and its ttl).
C5_SecondStoreKeepsFirstRecord ==
    [][(/\ Invokes("$connect")
        /\ last'.statusCode = 200
        /\ \A k \in 1..Len(last'.pushes) : last'.pushes[k].outcome = "ok"
        /\ \E e \in RecordsOf(registry, last'.connectionId) : e.timestamp # NoNum)
          => /\ RecordsOf(registry', last'.connectionId) = RecordsOf(registry, last'.connectionId)
             /\ Cardinality(RecordsOf(registry', last'.connectionId)) = 1]_vars

\* C6: when the transport reports a connection as gone, sendMessageToClient
\* does not throw and the registry holds no record of that connection when it
\* has returned, also when the scan or the delete of the cleanup fails (stated
\* here for a connection that has the record of one user, in an invocation
\* that stores none, in a table whose key is the one removeConnection deletes by).
C6_GoneConnectionIsRemoved ==
    [][\A k \in 1..Len(last'.pushes) :
          (/\ last = NoInvocation
           /\ keySchema = "connectionId+userId"
           /\ last'.pushes[k].outcome = "gone"
           /\ Cardinality(RecordsOf(registry, last'.pushes[k].connectionId)) = 1
           /\ \A j \in 1..Len(last'.calls) : last'.calls[j] # "storeConnection")
            => /\ \A j \in 1..Len(last'.calls) : last'.calls[j] # "sendMessageToClient:throw"
               /\ RecordsOf(registry', last'.pushes[k].connectionId) = {}]_vars

\* C7: when a logout returns 200 the registry holds no record of the user of
\* its token.
C7_LogoutRemovesEveryRecordOfUser ==
    (last.route = "$default" /\ last.action = "logout" /\ last.statusCode = 200)
        => {i \in registry : i.userId = last.token.userId} = {}

C7_Witness ==
    /\ last.route = "$default"
    /\ last.action = "logout"
    /\ last.statusCode = 200
    /\ Count("Delete") = Cardinality(Conns)
    /\ {i \in registry : i.userId = last.token.userId} = {}

\* C8: a getWeather with a valid token on a connectionId that has no record
\* leaves the registry without a record of that connectionId.
C8_GetWeatherDoesNotResurrect ==
    [][(/\ Invokes("getWeather")
        /\ ~TokenFails(last'.token, last'.at)
        /\ RecordsOf(registry, last'.connectionId) = {})
          => RecordsOf(registry', last'.connectionId) = {}]_vars

\* C9: after a subscribe for location L on connection c has returned 200 the
\* record of c holds the list [L] as its subscription, and exactly one
\* weatherUpdate was pushed to c, after the registry update (stated here for a
\* connection whose record storeConnection has written).
C9_SubscribeReplacesSubscription ==
    [][(/\ Invokes("$default")
        /\ last'.action = "subscribe"
        /\ last'.locationId # NoLoc
        /\ last'.statusCode = 200
        /\ \E e \in RecordsOf(registry, last'.connectionId) : e.timestamp # NoNum)
          => /\ RecordsOf(registry', last'.connectionId) # {}
             /\ \A i \in RecordsOf(registry', last'.connectionId) :
                  i.locationIds = LocList(<<last'.locationId>>)
             /\ \E k \in 1..Len(last'.pushes) :
                  /\ last'.pushes[k].type = "weatherUpdate"
                  /\ last'.pushes[k].connectionId = last'.connectionId
                  /\ \E j \in 1..(last'.pushes[k].at - 1) : last'.calls[j] = "Update"
                  /\ \A x \in 1..Len(last'.pushes) :
                       last'.pushes[x].type = "weatherUpdate" => x = k]_vars

\* C10: the weatherUpdate pushed by a subscribe for location L holds the
\* results of exactly the subscribed locations, that is of L (stated here for
\* a push that holds a result).
C10_SubscribePushesSubscribedLocations ==
    (/\ last.route = "$default"
     /\ last.action = "subscribe"
     /\ last.locationId # NoLoc)
        => \A k \in Pushed("weatherUpdate") :
              last.pushes[k].locations # <<>>
                => {last.pushes[k].locations[x].location :
                       x \in 1..Len(last.pushes[k].locations)} = {last.locationId}

\* C11: after an unsubscribe with a valid token on connection c has returned
\* 200 the record of c still exists, its subscription is the empty list that
\* storeConnection initialises it to, and no weatherUpdate was pushed (stated
\* here for a connection whose record storeConnection has written).
C11_UnsubscribeEmptiesSubscription ==
    [][(/\ Invokes("$default")
        /\ last'.action = "unsubscribe"
        /\ last'.statusCode = 200
        /\ \E e \in RecordsOf(registry, last'.connectionId) : e.timestamp # NoNum)
          => /\ RecordsOf(registry', last'.connectionId) # {}
             /\ \A i \in RecordsOf(registry', last'.connectionId) :
                  i.locationIds = LocList(<<>>)
             /\ \A k \in 1..Len(last'.pushes) : last'.pushes[k].type # "weatherUpdate"]_vars

\* C12: getActiveConnections never returns a record whose ttl is less than or
\* equal to the time of the call, in epoch seconds.
C12_ListedRecordsAreUnexpired ==
    last.route = "getActiveConnections"
        => \A i \in last.items : i.ttl > last.at

C12_Witness ==
    /\ last.route = "getActiveConnections"
    /\ last.message = ""
    /\ \E i \in registry : i.ttl <= last.at /\ i \notin last.items

\* C13: getActiveConnections returns every record whose ttl is greater than
\* the time of the call; a record that storeConnection has just created is
\* among them.
C13_ListsEveryUnexpiredRecord ==
    (last.route = "getActiveConnections" /\ last.message = "")
        => \A i \in registry : i.ttl > last.at => i \in last.items

\* the weather functions
WeatherRoutes == {"getWeatherUpdates", "getCachedWeather", "weather-queries.getWeatherUpdates"}

\* age in milliseconds, at the time of the call, of entry e of the cache
AgeOf(e, t) == t * 1000 - e.timestamp

C15_OneResultPerLocation ==
    (/\ last.route \in {"getWeatherUpdates", "getCachedWeather"}
     /\ \A k \in WeatherKeys : last.provider[k] # "pending")
        => /\ ~last.threw
           /\ Len(last.results) = Len(last.locations)
           /\ \A i \in 1..Len(last.locations) : last.results[i].location = last.locations[i]

C18_NoStaleSnapshotReturned ==
    last.route \in WeatherRoutes
        => \A i \in 1..Len(last.results) :
              last.results[i].error = ""
                => last.at * 1000 - last.results[i].timestamp < 300000

\* C19: for a location without a snapshot of the last 5 minutes the weather
\* functions that keep a cache ask the provider, write the fresh snapshot to
\* the cache and return it; the missing snapshot alone gives no error result
\* (stated here for a provider and a store that answer).
C19_MissingSnapshotIsFetched ==
    [][/\ (/\ Invokes("weather-queries.getWeatherUpdates")
           /\ last'.store.ok
           /\ last'.store.last_updated = NoNum \/ last'.store.last_updated <= now - 300)
            => \A i \in 1..Len(last'.results) : last'.results[i].error = ""
       /\ \A l \in WeatherKeys :
            (/\ Invokes("getCachedWeather")
             /\ last'.locations = <<l>>
             /\ last'.provider[l] = "ok"
             /\ weatherCache[l] = NoEntry \/ AgeOf(weatherCache[l], now) >= 300000)
              => /\ last'.requests = <<l>>
                 /\ Len(last'.results) = 1
                 /\ last'.results[1].error = ""
                 /\ last'.results[1].timestamp = now * 1000
                 /\ weatherCache'[l].data = last'.results[1]]_vars

ValidConnect ==
    /\ last.route = "$connect"
    /\ ~TokenFails(last.token, last.at)
    /\ last.providedUserId \in {last.token.userId, last.token.username}

\* every request to the registry and to the relational store was answered and
\* every push was delivered
Undisturbed ==
    /\ last.faults = {}
    /\ last.db.ok
    /\ \A k \in 1..Len(last.pushes) : last.pushes[k].outcome = "ok"

\* C21: a $connect with a valid token and a matching userId, in which the
\* stores answer and the push is delivered, returns 200 and sends exactly one
\* push, on its own connection: noLocations when the saved-location list of
\* the user is empty and weatherUpdate otherwise.
C21_ConnectSendsOnePush ==
    (ValidConnect /\ Undisturbed)
        => /\ last.statusCode = 200
           /\ Len(last.pushes) = 1
           /\ last.pushes[1].connectionId = last.connectionId
           /\ last.pushes[1].type = (IF last.db.rows = <<>> THEN "noLocations"
                                     ELSE "weatherUpdate")

C21_Witness ==
    /\ ValidConnect
    /\ Undisturbed
    /\ last.db.rows # <<>>
    /\ last.statusCode = 200
    /\ Len(last.pushes) = 1
    /\ last.pushes[1].type = "weatherUpdate"
    /\ RecordsOf(registry, last.connectionId) # {}

\* C22: a $connect with a valid token and no userId parameter returns 200 and
\* the registry then holds a record of its connectionId under the userId of
\* the token.
C22_ConnectWithoutUserIdIsAccepted ==
    (/\ last.route = "$connect"
     /\ ~TokenFails(last.token, last.at)
     /\ last.providedUserId = NoUser)
        => /\ last.statusCode = 200
           /\ \E i \in RecordsOf(registry, last.connectionId) : i.userId = last.token.userId

\* C23: a $connect without the token or without the userId parameter returns
\* 401 'Authorization token and userId required', does not call
\* storeConnection, leaves the registry as it was and sends no push.
C23_ConnectRequiresTokenAndUserId ==
    (last.route = "$connect" /\ (last.token.kind = "none" \/ last.providedUserId = NoUser))
        => /\ last.statusCode = 401
           /\ last.message = "Authorization token and userId required"
           /\ ~Called("storeConnection")
           /\ ~last.mutated
           /\ last.pushes = <<>>

C23_Witness ==
    /\ last.route = "$connect"
    /\ ~TokenFails(last.token, last.at)
    /\ last.providedUserId = NoUser
    /\ last.statusCode = 401
    /\ last.message = "Authorization token and userId required"
    /\ last.calls = <<"verifyToken:ok">>
    /\ registry # {}

\* the routes that parse the body of the message
BodyRoutes == {"getWeather", "locationUpdate", "$default"}

\* C24: a getWeather, locationUpdate or $default message whose body is not
\* JSON is answered with status 400 and the invocation leaves the registry as
\* it was (stated here for an invocation whose pushes are delivered).
C24_MalformedBodyAnswered400 ==
    (/\ last.route \in BodyRoutes
     /\ last.action = "malformed"
     /\ \A k \in 1..Len(last.pushes) : last.pushes[k].outcome = "ok")
        => /\ last.statusCode = 400
           /\ ~last.mutated

\* C25: an event whose route is none of $connect, $disconnect, getWeather,
\* locationUpdate and $default returns 400 'Unknown route'; the invocation
\* makes no request to the registry and sends no push.
C25_UnknownRouteTouchesNothing ==
    last.route = "unknown"
        => /\ last.statusCode = 400
           /\ last.message = "Unknown route"
           /\ last.calls = <<>>
           /\ last.pushes = <<>>
           /\ ~last.mutated

C25_Witness ==
    /\ last.route = "unknown"
    /\ last.statusCode = 400
    /\ RecordsOf(registry, last.connectionId) # {}

\* the routes of the handler
HandlerRoutes == TokenRoutes \cup {"$disconnect", "unknown"}

C27_FanOutIsolatesFailedRecipient ==
    (/\ last.route = "broadcastToUserConnections"
     /\ last.faults = {}
     /\ \E k \in 1..Len(last.pushes) : last.pushes[k].outcome = "error"
     /\ \E k \in 1..Len(last.pushes) : last.pushes[k].outcome = "ok")
        => last.message = ""

\* C28: removeConnection(c), here the one call of a $disconnect on c whose
\* registry requests are answered, returns normally whether or not c has a
\* record; the registry then holds no record of c and every record of another
\* connectionId is as it was.
C28_RemoveLeavesNoRecord ==
    [][(Invokes("$disconnect") /\ last'.faults = {})
          => /\ last'.statusCode = 200
             /\ RecordsOf(registry', last'.connectionId) = {}
             /\ \A i \in registry : i.connectionId # last'.connectionId => i \in registry'
             /\ \A i \in registry' : i \in registry]_vars

\* C29: on a connection whose record storeConnection has written for the user
\* of the token, a getWeather (updateConnectionTTL) leaves exactly that record
\* with its ttl set to now + 24 h and nothing else changed, and a subscribe
\* (updateConnectionLocations) leaves the record with its ttl set to now + 24 h
\* (stated here for invocations whose requests are answered and whose pushes
\* are delivered).
C29_RefreshSetsTtlOnly ==
    [][\A e \in registry :
          (/\ last = NoInvocation
           /\ last'.route \in {"getWeather", "$default"}
           /\ last'.route = "$default" => (last'.action = "subscribe" /\ last'.locationId # NoLoc)
           /\ last'.action # "malformed"
           /\ ~TokenFails(last'.token, last'.at)
           /\ last'.faults = {}
           /\ last'.db.ok
           /\ \A k \in 1..Len(last'.pushes) : last'.pushes[k].outcome = "ok"
           /\ e.connectionId = last'.connectionId
           /\ e.userId = last'.token.userId
           /\ e.timestamp # NoNum
           /\ RecordsOf(registry, e.connectionId) = {e})
            => /\ last'.route = "getWeather"
                    => RecordsOf(registry', e.connectionId)
                          = {[e EXCEPT !.ttl = now + 24 * 3600]}
               /\ last'.route = "$default"
                    => \E i \in RecordsOf(registry', e.connectionId) :
                          /\ i.ttl = now + 24 * 3600
                          /\ i.userId = e.userId
                          /\ i.timestamp = e.timestamp]_vars

\* C30: when two subscribe requests on one connection have run concurrently
\* and both are done, neither has failed with a conflict error, and every
\* record of the connection holds as its subscription the value of the
\* request whose registry write was committed last, not a merge of the two.
C30_LastSubscribeWins ==
    (/\ last.route = "subscribe||subscribe"
     /\ \A p \in Procs : last.pc[p] = "done")
        => /\ \A p \in Procs :
                last.error[p] \notin {"ConditionalCheckFailedException",
                                      "TransactionConflictException"}
           /\ last.order # <<>>
                => \A i \in RecordsOf(registry, last.connectionId) :
                      i.locationIds = LocString(last.locationId[last.order[Len(last.order)]])

C30_Witness ==
    /\ last.route = "subscribe||subscribe"
    /\ \A p \in Procs : last.pc[p] = "done" /\ last.statusCode[p] = 200
    /\ last.locationId = <<"loc-7", "loc-8">>
    /\ last.order = <<2, 1>>
    /\ \E i \in RecordsOf(registry, last.connectionId) :
          /\ i.timestamp # NoNum
          /\ i.locationIds = LocString("loc-7")

\* C34: a $connect that returns 401 leaves the registry as it found it: no
\* record of that invocation stays behind, whatever step failed.
C34_RejectedConnectLeavesNoRecord ==
    [][(Invokes("$connect") /\ last'.statusCode = 401)
          => registry' = registry]_vars

\* C35: when a $connect returns 200 'Connected successfully' the registry
\* holds a record of its connectionId, also when the transport answered 410
\* to the push of that $connect.
C35_AcceptedConnectHasRecord ==
    (last.route = "$connect" /\ last.statusCode = 200)
        => RecordsOf(registry, last.connectionId) # {}

\* C36: a getWeather or a subscribe that carries the valid token of another
\* user than the owner of the connection's record leaves the connection with
\* the records it had: none under another userId appears and the owner does
\* not change (stated here for invocations whose requests are answered and
\* whose pushes are delivered).
C36_RecordKeepsItsOwner ==
    [][(/\ last = NoInvocation
        /\ last'.route \in {"getWeather", "$default"}
        /\ last'.route = "$default" => last'.action = "subscribe"
        /\ ~TokenFails(last'.token, last'.at)
        /\ last'.faults = {}
        /\ last'.db.ok
        /\ \A k \in 1..Len(last'.pushes) : last'.pushes[k].outcome = "ok"
        /\ RecordsOf(registry, last'.connectionId) # {}
        /\ \A e \in RecordsOf(registry, last'.connectionId) :
              e.timestamp # NoNum /\ e.userId # last'.token.userId)
          => \A i \in RecordsOf(registry', last'.connectionId) :
                \E e \in RecordsOf(registry, last'.connectionId) : e.userId = i.userId]_vars

\* the locations named by a pushed payload, in order
Named(payload) == [x \in 1..Len(payload.locations) |-> payload.locations[x].location]

CarriedToken ==
    IF last.routeKey = "$connect" THEN last.query
    ELSE IF last.routeKey \in BodyRoutes /\ last.bodyOk THEN last.body
    ELSE NoToken

\* C33: the user context of the logger is the anonymous context exactly when
\* the event carries no token for its route or verifyToken throws on it;
\* otherwise it is a non-anonymous context keyed by the username of the token.
C33_AnonymousIffNoVerifiedToken ==
    last.route = "createUserContext"
        => /\ (last.context.key = "anonymous" /\ last.context.anonymous)
                <=> (CarriedToken = NoToken \/ TokenFails(CarriedToken, last.at))
           /\ ~(CarriedToken = NoToken \/ TokenFails(CarriedToken, last.at))
                => /\ ~last.context.anonymous
                   /\ last.context.key = CarriedToken.username

\* a getWeather message whose token expired got the anonymous context although
\* the token names alice
C33_Witness ==
    /\ last.route = "createUserContext"
    /\ last.routeKey = "getWeather"
    /\ last.bodyOk
    /\ last.body = Jwt("good", T0, "42", "alice")
    /\ jwtSecretSet
    /\ last.context = AnonymousContext

\* C32: an invocation whose LaunchDarkly initialisation succeeded has, when it
\* completes, flushed the LaunchDarkly client and after that closed the logger
\* and the client, whatever it answers.
C32_CleanupOnEveryPath ==
    (last.route = "handler" /\ last.lib.init)
        => /\ \E k \in 1..Len(last.cleanup) : last.cleanup[k] = "ldClient.flush"
           /\ \A name \in {"logger.close", "ldClient.close"} :
                \E k \in 2..Len(last.cleanup) :
                    last.cleanup[k] = name /\ last.cleanup[1] = "ldClient.flush"

\* C32, on the invocations that return a response: each of them has flushed
\* the client and closed the logger and the client.
C32_ResponsesAreCleanedUp ==
    (last.route = "handler" /\ last.completion = "returned")
        => /\ last.statusCode \in {200, 400, 401, 500}
           /\ last.cleanup = <<"ldClient.flush", "logger.close", "ldClient.close">>

\* C39: every connection that getConnection obtains from the pool during a
\* call of getLocationsForUser has been released when the call ends, also when
\* the check of the new connection fails or times out inside getConnection.
C39_ObtainedConnectionsAreReleased ==
    last.route = "getLocationsForUser" => last.released = last.obtained

\* C40: a retryOperation that returns does so with the first attempt that
\* succeeds and starts no attempt after it, and at no time are two attempts of
\* its operation running: an attempt abandoned by the timer of the attempt has
\* stopped before the next one starts.
C40_OneAttemptAtATime ==
    last.route = "retryOperation"
        => /\ ~last.threw
                => /\ last.attempts >= 1
                   /\ last.outcomes[last.attempts] = "ok"
                   /\ \A k \in 1..(last.attempts - 1) : last.outcomes[k] # "ok"
           /\ last.overlap <= 1

\* C37: when a logout of user U returns 200, the registry holds no record of U
\* stored before that response, also when a $connect of U on another
\* connection ran between the scan of the logout and its deletes.
C37_LogoutLeavesNoEarlierRecord ==
    (last.route = "logout||$connect" /\ last.statusCode.logout = 200)
        => last.left = {}

====
